---- MODULE Spec2Model ----
(***************************************************************************)
(* Domain/IP enrichment of the File-Flattening pipeline.                   *)
(*                                                                         *)
(* Two programs implement parallelize_domain_ip:                           *)
(*   flattener.py   ThreadPoolExecutor(max_workers=num_workers).map(get_ip)*)
(*   flattener2.py  asyncio.gather over get_ip_async coroutines            *)
(* The variable "variant" says which of the two programs is running.       *)
(*                                                                         *)
(* Strings are sequences of one-character strings, so that the regular     *)
(* expression of extract_domain is evaluated character by character.       *)
(***************************************************************************)
EXTENDS Integers, Sequences, FiniteSets, TLC

VARIABLES variant, num_workers, rows, df, unique_domains, task, outcome,
          lookups, fut, completed, results, ipaddress, pc,
          url, ntok, result, xpc

vars == <<variant, num_workers, rows, df, unique_domains, task, outcome,
          lookups, fut, completed, results, ipaddress, pc,
          url, ntok, result, xpc>>

pipeVars == <<variant, num_workers, rows, df, unique_domains, task, outcome,
              lookups, fut, completed, results, ipaddress, pc>>

extVars == <<url, ntok, result, xpc>>

----------------------------------------------------------------------------
(* Bounds *)

MaxRows == 3

MaxWorkers == 2

MaxTokens == 5

----------------------------------------------------------------------------
(* Literals *)

NA == <<"N", "A">>

NaN == <<"NaN">>

None == <<>>

Raised == <<"raised">>

NoMatch == <<>>

SchemeHttp == <<"h", "t", "t", "p">>

SchemeSep == <<":", "/", "/">>

Www == <<"w", "w", "w", ".">>

----------------------------------------------------------------------------
(* extract_domain: re.search(r"https?://(?:www\.)?([^/]+)", url)           *)

LitAt(s, lit, p) ==
    /\ p >= 1
    /\ p + Len(lit) - 1 <= Len(s)
    /\ \A j \in 1..Len(lit) : s[p + j - 1] = lit[j]

\* [^/]+ is greedy: it runs from p to just before the next "/" (or the end)
RunEnd(s, p) ==
    LET slashes == {j \in p..Len(s) : s[j] = "/"}
    IN  IF slashes = {} THEN Len(s)
        ELSE (CHOOSE j \in slashes : \A k \in slashes : j <= k) - 1

\* ([^/]+) tried at p: the captured group, or NoMatch when it is empty
GroupAt(s, p) ==
    IF p <= Len(s) /\ s[p] # "/" THEN SubSeq(s, p, RunEnd(s, p)) ELSE NoMatch

\* (?:www\.)?([^/]+) tried at p: the optional group is taken first and
\* given up when the rest then fails
HostAt_NoWwwStrip(s, p) == GroupAt(s, p)

HostAt(s, p) ==
    IF LitAt(s, Www, p) /\ GroupAt(s, p + 4) # NoMatch
    THEN GroupAt(s, p + 4)
    ELSE GroupAt(s, p)

\* https?:// tried at i, then the rest
MatchAt(s, i) ==
    IF ~LitAt(s, SchemeHttp, i) THEN NoMatch
    ELSE IF LitAt(s, <<"s">>, i + 4) /\ LitAt(s, SchemeSep, i + 5)
              /\ HostAt(s, i + 8) # NoMatch
         THEN HostAt(s, i + 8)
         ELSE IF LitAt(s, SchemeSep, i + 4) THEN HostAt(s, i + 7)
              ELSE NoMatch

\* re.match would try position 1 only
re_search_Anchored(s) == IF Len(s) >= 1 THEN MatchAt(s, 1) ELSE NoMatch

\* re.search: the match at the leftmost position that has one
re_search(s) ==
    LET hits == {i \in 1..Len(s) : MatchAt(s, i) # NoMatch}
    IN  IF hits = {} THEN NoMatch
        ELSE MatchAt(s, CHOOSE i \in hits : \A k \in hits : i <= k)

extract_domain(u) ==
    LET match == re_search(u)
    IN  IF match # NoMatch THEN match ELSE NA

----------------------------------------------------------------------------
(* Input rows: the infringing_urls column                                  *)

UrlA1 == <<"h", "t", "t", "p", ":", "/", "/", "a", "/", "1">>

UrlA2 == <<"h", "t", "t", "p", "s", ":", "/", "/", "w", "w", "w", ".", "a", "/", "2">>

UrlB == <<"h", "t", "t", "p", ":", "/", "/", "b", ":", "8", "/">>

UrlC == <<"h", "t", "t", "p", ":", "/", "/", "w", "w", "w", ".", "c">>

UrlBad == <<"b", "a", "d">>

Urls == {UrlA1, UrlA2, UrlB, UrlC, UrlBad}

RECURSIVE SeqsOfLen(_, _)
SeqsOfLen(S, n) ==
    IF n = 0 THEN {<<>>}
    ELSE {Append(q, x) : q \in SeqsOfLen(S, n - 1), x \in S}

RowSets ==
    UNION {{[i \in 1..n |-> [infringing_urls |-> q[i]]] : q \in SeqsOfLen(Urls, n)}
           : n \in 0..MaxRows}

----------------------------------------------------------------------------
(* pandas operations used by parallelize_domain_ip                         *)

\* df['domain'] = df['infringing_urls'].swifter.apply(extract_domain)
ApplyExtract(d) ==
    [r \in 1..Len(d) |->
        [infringing_urls |-> d[r].infringing_urls,
         domain |-> extract_domain(d[r].infringing_urls)]]

\* df[df['domain'] != 'NA']
IsNotNA(row) == row.domain # NA

FilterNA(d) == SelectSeq(d, IsNotNA)

\* Series.unique(): distinct values in order of first appearance
RECURSIVE UniqueOf(_)
UniqueOf(s) ==
    IF s = <<>> THEN <<>>
    ELSE LET front == UniqueOf(SubSeq(s, 1, Len(s) - 1))
             last == s[Len(s)]
         IN  IF \E i \in 1..Len(front) : front[i] = last
             THEN front ELSE Append(front, last)

DomainColumn(d) == [r \in 1..Len(d) |-> d[r].domain]

\* the rows a left row joins with: one per right row with the same key, in
\* right order; a single row with a missing value when there is none
RECURSIVE JoinRow(_, _, _, _)
JoinRow(row, ud, ips, i) ==
    IF i > Len(ud) THEN <<>>
    ELSE (IF ud[i] = row.domain
          THEN <<[infringing_urls |-> row.infringing_urls,
                  domain |-> row.domain, ipaddress |-> ips[i]]>>
          ELSE <<>>) \o JoinRow(row, ud, ips, i + 1)

RECURSIVE MergeLeft_Positional(_, _, _)
MergeLeft_Positional(left, ud, ips) ==
    IF left = <<>> THEN <<>>
    ELSE MergeLeft_Positional(SubSeq(left, 1, Len(left) - 1), ud, ips)
         \o <<[infringing_urls |-> left[Len(left)].infringing_urls,
               domain |-> left[Len(left)].domain,
               ipaddress |-> IF Len(left) <= Len(ips)
                             THEN ips[Len(left)] ELSE NaN]>>

\* df.merge(unique_domains, how='left', on='domain')
RECURSIVE MergeLeft(_, _, _)
MergeLeft(left, ud, ips) ==
    IF left = <<>> THEN <<>>
    ELSE LET row == left[1]
             hit == JoinRow(row, ud, ips, 1)
         IN  (IF hit = <<>>
              THEN <<[infringing_urls |-> row.infringing_urls,
                      domain |-> row.domain, ipaddress |-> NaN]>>
              ELSE hit) \o MergeLeft(Tail(left), ud, ips)

\* df['ipaddress'].fillna('NA')
FillNA(d) ==
    [r \in 1..Len(d) |->
        [infringing_urls |-> d[r].infringing_urls, domain |-> d[r].domain,
         ipaddress |-> IF d[r].ipaddress = NaN THEN NA ELSE d[r].ipaddress]]

----------------------------------------------------------------------------
(* DNS lookups                                                             *)

\* what one lookup can do: answer, name not found, time out, or fail in
\* another way (e.g. UnicodeError from the idna codec on an empty label)
Outcomes == {"ok", "gaierror", "timeout", "other"}

\* the A record of a domain that has one
IpOf(domain) == <<"@">> \o domain

\* get_ip: except (socket.gaierror, socket.timeout) only
get_ip(domain, kind) ==
    IF kind = "ok" THEN IpOf(domain)
    ELSE IF kind \in {"gaierror", "timeout"} THEN NA
    ELSE Raised

\* get_ip_async: except Exception
get_ip_async(domain, kind) ==
    IF kind = "ok" THEN IpOf(domain) ELSE NA

N == Len(unique_domains)

Queued == {i \in 1..Len(task) : task[i] = "queued"}

InFlight == {i \in 1..Len(task) : task[i] = "running"}

\* head of the FIFO work queue / ready queue
NextQueued == CHOOSE i \in Queued : \A k \in Queued : i <= k

\* as_completed-style collection: the k-th future to finish
FutureResult_ByCompletion(k) == fut[completed[k]]

\* Executor.map and asyncio.gather hand results back in submission order
FutureResult(k) == fut[k]

----------------------------------------------------------------------------
(* parallelize_domain_ip                                                   *)

ExtractorIdle ==
    /\ url = <<>>
    /\ ntok = 0
    /\ result = None
    /\ xpc = "idle"

Init ==
    /\ variant \in {"threadpool", "async"}
    /\ num_workers \in 1..MaxWorkers
    /\ rows \in RowSets
    /\ df = rows
    /\ unique_domains = <<>>
    /\ task = <<>>
    /\ outcome = <<>>
    /\ lookups = <<>>
    /\ fut = <<>>
    /\ completed = <<>>
    /\ results = <<>>
    /\ ipaddress = None
    /\ pc = "start"
    /\ ExtractorIdle

\* df = df.reset_index(drop=True); df['domain'] = ...apply(extract_domain)
ExtractDomains ==
    /\ pc = "start"
    /\ df' = ApplyExtract(df)
    /\ pc' = "extracted"
    /\ UNCHANGED <<variant, num_workers, rows, unique_domains, task, outcome,
                   lookups, fut, completed, results, ipaddress>>
    /\ UNCHANGED extVars

\* df = df[df['domain'] != 'NA']
FilterRows ==
    /\ pc = "extracted"
    /\ df' = FilterNA(df)
    /\ pc' = "filtered"
    /\ UNCHANGED <<variant, num_workers, rows, unique_domains, task, outcome,
                   lookups, fut, completed, results, ipaddress>>
    /\ UNCHANGED extVars

\* unique_domains = pd.DataFrame(df['domain'].unique(), columns=['domain'])
UniqueDomains ==
    /\ pc = "filtered"
    /\ unique_domains' = UniqueOf(DomainColumn(df))
    /\ pc' = "unique"
    /\ UNCHANGED <<variant, num_workers, rows, df, task, outcome,
                   lookups, fut, completed, results, ipaddress>>
    /\ UNCHANGED extVars

\* executor.map(...) submits one future per domain; resolve_ips_async builds
\* one coroutine per domain and gather schedules them all
SubmitAll ==
    /\ pc = "unique"
    /\ task' = [i \in 1..N |-> "queued"]
    /\ outcome' = [i \in 1..N |-> "none"]
    /\ lookups' = [i \in 1..N |-> 0]
    /\ fut' = [i \in 1..N |-> None]
    /\ pc' = "resolving"
    /\ UNCHANGED <<variant, num_workers, rows, df, unique_domains,
                   completed, results, ipaddress>>
    /\ UNCHANGED extVars

\* a pool thread takes the next future off the work queue and calls get_ip;
\* the pool has at most max_workers threads
WorkerStart ==
    /\ variant = "threadpool"
    /\ pc \in {"resolving", "unwinding"}
    /\ Queued # {}
    /\ Cardinality(InFlight) < num_workers
    /\ task' = [task EXCEPT ![NextQueued] = "running"]
    /\ lookups' = [lookups EXCEPT ![NextQueued] = @ + 1]
    /\ UNCHANGED <<variant, num_workers, rows, df, unique_domains, outcome,
                   fut, completed, results, ipaddress, pc>>
    /\ UNCHANGED extVars

\* the event loop runs the next ready coroutine up to its await: the query
\* is handed to the resolver; nothing limits how many are outstanding
TaskStart ==
    /\ variant = "async"
    /\ pc = "resolving"
    /\ Queued # {}
    /\ task' = [task EXCEPT ![NextQueued] = "running"]
    /\ lookups' = [lookups EXCEPT ![NextQueued] = @ + 1]
    /\ UNCHANGED <<variant, num_workers, rows, df, unique_domains, outcome,
                   fut, completed, results, ipaddress, pc>>
    /\ UNCHANGED extVars

\* socket.gethostbyname returns or raises; get_ip's result (or exception)
\* is stored in the future
LookupFinish(i, kind) ==
    /\ variant = "threadpool"
    /\ pc \in {"resolving", "unwinding"}
    /\ task[i] = "running"
    /\ task' = [task EXCEPT ![i] = "done"]
    /\ outcome' = [outcome EXCEPT ![i] = kind]
    /\ fut' = [fut EXCEPT ![i] = get_ip(unique_domains[i], kind)]
    /\ completed' = Append(completed, i)
    /\ UNCHANGED <<variant, num_workers, rows, df, unique_domains, lookups,
                   results, ipaddress, pc>>
    /\ UNCHANGED extVars

\* resolver.gethostbyname completes or raises; get_ip_async returns
AsyncFinish(i, kind) ==
    /\ variant = "async"
    /\ pc = "resolving"
    /\ task[i] = "running"
    /\ task' = [task EXCEPT ![i] = "done"]
    /\ outcome' = [outcome EXCEPT ![i] = kind]
    /\ fut' = [fut EXCEPT ![i] = get_ip_async(unique_domains[i], kind)]
    /\ completed' = Append(completed, i)
    /\ UNCHANGED <<variant, num_workers, rows, df, unique_domains, lookups,
                   results, ipaddress, pc>>
    /\ UNCHANGED extVars

\* list(...) pulls the next result from Executor.map's iterator, which waits
\* for the futures in submission order
CollectNext ==
    /\ variant = "threadpool"
    /\ pc = "resolving"
    /\ Len(results) < N
    /\ task[Len(results) + 1] = "done"
    /\ fut[Len(results) + 1] # Raised
    /\ results' = Append(results, FutureResult(Len(results) + 1))
    /\ UNCHANGED <<variant, num_workers, rows, df, unique_domains, task,
                   outcome, lookups, fut, completed, ipaddress, pc>>
    /\ UNCHANGED extVars

\* the next future holds an exception: result() re-raises it in list(...),
\* and the iterator's finally clause cancels the futures not yet started
CollectRaises ==
    /\ variant = "threadpool"
    /\ pc = "resolving"
    /\ Len(results) < N
    /\ task[Len(results) + 1] = "done"
    /\ fut[Len(results) + 1] = Raised
    /\ task' = [i \in 1..N |-> IF task[i] = "queued" THEN "cancelled" ELSE task[i]]
    /\ pc' = "unwinding"
    /\ UNCHANGED <<variant, num_workers, rows, df, unique_domains, outcome,
                   lookups, fut, completed, results, ipaddress>>
    /\ UNCHANGED extVars

\* the with block's exit (shutdown(wait=True)) joins the pool threads, then
\* the exception leaves parallelize_domain_ip
ShutdownRaise ==
    /\ variant = "threadpool"
    /\ pc = "unwinding"
    /\ InFlight = {}
    /\ pc' = "aborted"
    /\ UNCHANGED <<variant, num_workers, rows, df, unique_domains, task,
                   outcome, lookups, fut, completed, results, ipaddress>>
    /\ UNCHANGED extVars

\* unique_domains['ipaddress'] = list(executor.map(...)), then the with
\* block exits
AssignColumn ==
    /\ variant = "threadpool"
    /\ pc = "resolving"
    /\ Len(results) = N
    /\ ipaddress' = results
    /\ pc' = "resolved"
    /\ UNCHANGED <<variant, num_workers, rows, df, unique_domains, task,
                   outcome, lookups, fut, completed, results>>
    /\ UNCHANGED extVars

\* unique_domains['ipaddress'] = await asyncio.gather(*tasks): gather
\* finishes when every task has, with the results in argument order
GatherDone ==
    /\ variant = "async"
    /\ pc = "resolving"
    /\ \A i \in 1..N : task[i] = "done"
    /\ results' = [k \in 1..N |-> FutureResult(k)]
    /\ ipaddress' = results'
    /\ pc' = "resolved"
    /\ UNCHANGED <<variant, num_workers, rows, df, unique_domains, task,
                   outcome, lookups, fut, completed>>
    /\ UNCHANGED extVars

\* df = df.merge(unique_domains, how='left', on='domain');
\* df['ipaddress'] = df['ipaddress'].fillna('NA'); return df
Merge ==
    /\ pc = "resolved"
    /\ df' = FillNA(MergeLeft(df, unique_domains, ipaddress))
    /\ pc' = "done"
    /\ UNCHANGED <<variant, num_workers, rows, unique_domains, task, outcome,
                   lookups, fut, completed, results, ipaddress>>
    /\ UNCHANGED extVars

Next ==
    \/ ExtractDomains
    \/ FilterRows
    \/ UniqueDomains
    \/ SubmitAll
    \/ WorkerStart
    \/ TaskStart
    \/ \E i \in 1..N, kind \in Outcomes : LookupFinish(i, kind)
    \/ \E i \in 1..N, kind \in Outcomes : AsyncFinish(i, kind)
    \/ CollectNext
    \/ CollectRaises
    \/ ShutdownRaise
    \/ AssignColumn
    \/ GatherDone
    \/ Merge

Spec == Init /\ [][Next]_vars

\* every step that can be taken is eventually taken: pool threads and the
\* event loop keep running, and every lookup returns or fails
FairSpec == Spec /\ WF_vars(Next)

----------------------------------------------------------------------------
(* extract_domain on its own: the argument is put together from pieces of  *)
(* URLs, then the function is called once                                  *)

LitHttp == <<"h", "t", "t", "p", ":", "/", "/">>

LitHttps == <<"h", "t", "t", "p", "s", ":", "/", "/">>

Tokens == {LitHttp, LitHttps, Www, <<"h", "t", "t", "p", ":", "/">>, <<"a">>, <<"B">>, <<"/">>, <<":", "8">>}

PipelineIdle ==
    /\ variant = "threadpool"
    /\ num_workers = 1
    /\ rows = <<>>
    /\ df = <<>>
    /\ unique_domains = <<>>
    /\ task = <<>>
    /\ outcome = <<>>
    /\ lookups = <<>>
    /\ fut = <<>>
    /\ completed = <<>>
    /\ results = <<>>
    /\ ipaddress = None
    /\ pc = "idle"

InitExtract ==
    /\ PipelineIdle
    /\ url = <<>>
    /\ ntok = 0
    /\ result = None
    /\ xpc = "input"

AppendToken(t) ==
    /\ xpc = "input"
    /\ ntok < MaxTokens
    /\ url' = url \o t
    /\ ntok' = ntok + 1
    /\ UNCHANGED <<result, xpc>>
    /\ UNCHANGED pipeVars

CallExtract ==
    /\ xpc = "input"
    /\ result' = extract_domain(url)
    /\ xpc' = "returned"
    /\ UNCHANGED <<url, ntok>>
    /\ UNCHANGED pipeVars

NextExtract ==
    \/ \E t \in Tokens : AppendToken(t)
    \/ CallExtract

SpecExtract == InitExtract /\ [][NextExtract]_vars

----------------------------------------------------------------------------
(* What a URL's host is, read off the string                               *)

\* s up to, not including, its first "/"
UpToSlash(s) ==
    IF \E j \in 1..Len(s) : s[j] = "/"
    THEN SubSeq(s, 1, (CHOOSE j \in 1..Len(s) :
                          s[j] = "/" /\ \A k \in 1..(j - 1) : s[k] # "/") - 1)
    ELSE s

DropWww(s) ==
    IF Len(s) >= 4 /\ SubSeq(s, 1, 4) = Www THEN SubSeq(s, 5, Len(s)) ELSE s

SchemeLen(u) ==
    IF Len(u) >= 7 /\ SubSeq(u, 1, 7) = LitHttp THEN 7
    ELSE IF Len(u) >= 8 /\ SubSeq(u, 1, 8) = LitHttps THEN 8
    ELSE 0

AfterScheme(u) == SubSeq(u, SchemeLen(u) + 1, Len(u))

UrlHost(u) == UpToSlash(DropWww(AfterScheme(u)))

\* http(s)://[www.]host/... with a host of at least one character
WellFormed(u) ==
    /\ SchemeLen(u) > 0
    /\ UrlHost(u) # <<>>
    /\ Len(UrlHost(u)) < Len(DropWww(AfterScheme(u)))

\* the pattern occurs at position i of u
PatternAt(u, i) ==
    \E n \in {7, 8} :
        /\ i + n <= Len(u)
        /\ SubSeq(u, i, i + n - 1) = (IF n = 7 THEN LitHttp ELSE LitHttps)
        /\ u[i + n] # "/"

PatternIn(u) == \E i \in 1..Len(u) : PatternAt(u, i)

\* the host of the occurrence at i: "www." is dropped unless nothing but a
\* "/" or the end follows it
HostFrom(u, i) ==
    LET n == IF SubSeq(u, i, i + 6) = LitHttp THEN 7 ELSE 8
        rest == SubSeq(u, i + n, Len(u))
    IN  IF UpToSlash(DropWww(rest)) # <<>> THEN UpToSlash(DropWww(rest))
        ELSE UpToSlash(rest)

----------------------------------------------------------------------------
(* Claims                                                                  *)

\* C8: for a URL http(s)://[www.]host/..., extract_domain returns host:
\* what follows the scheme and an optional leading "www." up to the first
\* "/", verbatim (case and port kept)
C8_HostExtraction ==
    (xpc = "returned" /\ WellFormed(url)) => result = UrlHost(url)

C8_Witness ==
    /\ xpc = "returned"
    /\ WellFormed(url)
    /\ SchemeLen(url) = 8
    /\ LitAt(url, Www, 9)
    /\ result = <<"B", ":", "8">>

\* C9: extract_domain returns a value for every string: "NA" when the
\* pattern occurs nowhere in it (no scheme, empty string, a bare host such
\* as its own result), and otherwise the host of the leftmost occurrence
C9_Totality ==
    xpc = "returned" =>
        /\ result # None
        /\ ~PatternIn(url) => result = NA
        /\ PatternIn(url) =>
              \E i \in 1..Len(url) :
                  /\ PatternAt(url, i)
                  /\ \A k \in 1..(i - 1) : ~PatternAt(url, k)
                  /\ result = HostFrom(url, i)
        /\ extract_domain(result) = NA

C9_Witness ==
    /\ xpc = "returned"
    /\ url = Www \o <<"a">> \o <<"/">>
    /\ result = NA

\* the outcome a lookup of unique domain i ended with, as a column value
OutcomeValue(i) ==
    IF outcome[i] = "ok" THEN IpOf(unique_domains[i]) ELSE NA

Returned == pc \in {"resolved", "done"}

\* C1: the table parallelize_domain_ip returns has as many rows as its
\* input, rows with domain "NA" included
C1_RowCountPreserved ==
    pc = "done" => Len(df) = Len(rows)

\* C2: every input row whose extracted domain is "NA" is in the output, with
\* domain "NA" and ipaddress "NA"
C2_NARowsRetained ==
    pc = "done" =>
        \A r \in 1..Len(rows) :
            extract_domain(rows[r].infringing_urls) = NA =>
                \E q \in 1..Len(df) :
                    /\ df[q].infringing_urls = rows[r].infringing_urls
                    /\ df[q].domain = NA
                    /\ df[q].ipaddress = NA

\* C3: whatever the lookups do, the batch is never aborted, and the mapping
\* returned has one entry per domain, "NA" for every domain whose lookup
\* failed
C3_FailureAbsorbed ==
    /\ pc \notin {"unwinding", "aborted"}
    /\ Returned =>
          /\ Len(ipaddress) = N
          /\ \A i \in 1..N : outcome[i] # "ok" => ipaddress[i] = NA

\* C4: the lookups in flight never outnumber the configured concurrency
C4_BoundedConcurrency ==
    Cardinality(InFlight) <= num_workers

\* C5: the resolver step returns, and the merge starts, only when every
\* domain has a recorded outcome and no lookup is queued or in flight; and
\* the resolver step eventually returns
C5_CompletionBarrier ==
    /\ [](Returned =>
            \A i \in 1..N : task[i] = "done" /\ ipaddress[i] = OutcomeValue(i))
    /\ <>Returned

\* C6: an output row whose domain is a key of the mapping carries the
\* mapping's value for it, so rows with the same domain carry the same
\* ipaddress
C6_JoinConsistent ==
    pc = "done" =>
        /\ \A r \in 1..Len(df) : \A i \in 1..N :
              df[r].domain = unique_domains[i] => df[r].ipaddress = ipaddress[i]
        /\ \A r \in 1..Len(df) : \A q \in 1..Len(df) :
              df[r].domain = df[q].domain => df[r].ipaddress = df[q].ipaddress

C6_Witness ==
    /\ pc = "done"
    /\ Len(df) = 3
    /\ df[1].domain = df[3].domain
    /\ df[1].domain # df[2].domain
    /\ df[1].ipaddress = IpOf(df[1].domain)
    /\ df[2].ipaddress = NA
    /\ completed = <<2, 1>>

\* C7: each distinct domain of the rows other than "NA" is one task, looked
\* up exactly once in the pass and never again, and the mapping, once
\* written, is not changed
C7_ExactlyOnce ==
    /\ [](\A i \in 1..Len(lookups) : lookups[i] <= 1)
    /\ [](pc \in {"done", "aborted"} =>
            \A r \in 1..Len(rows) :
                LET d == extract_domain(rows[r].infringing_urls)
                IN  d # NA =>
                      /\ Cardinality({i \in 1..N : unique_domains[i] = d}) = 1
                      /\ \A i \in 1..N : unique_domains[i] = d => lookups[i] = 1)
    /\ [][Returned => (ipaddress' = ipaddress)]_vars

\* C10: whatever order the lookups finish in, the ipaddress stored for the
\* i-th unique domain is the outcome of the lookup of that domain
C10_ResultAligned ==
    Returned => \A i \in 1..N : ipaddress[i] = OutcomeValue(i)

C10_Witness ==
    /\ pc = "resolved"
    /\ N = 3
    /\ completed = <<3, 1, 2>>
    /\ outcome = <<"ok", "timeout", "ok">>
    /\ ipaddress = <<IpOf(unique_domains[1]), NA, IpOf(unique_domains[3])>>

====
